---- MODULE Spec2Model ----
(***************************************************************************)
(* The typed HTTP fetch layer (effect-fetcher): one logical request run by *)
(* fetcher(input, method, options, params, body).  The Effect it returns   *)
(* encodes the body, then runs executeRequest under Effect.retry with the  *)
(* schedule intersect(exponential(retryDelay), recurs(retries)) and a      *)
(* final Effect.catchAll.  The transport (HttpClient) and the ArkType      *)
(* schema are the environment: their answers are chosen nondeterministically*)
(* for every physical attempt.                                             *)
(***************************************************************************)
EXTENDS Integers, Sequences, FiniteSets, TLC

\* ---- bounds of the model ------------------------------------------------
MaxRetries == 2

\* ---- program constants --------------------------------------------------
DefaultRetryDelay == 1000

\* HttpMethod, two methods of each kind: the fetcher tells the methods apart
\* only by whether a body is attached (POST, PUT, PATCH) or not
Methods == {"GET", "DELETE", "POST", "PUT"}
BodyMethods == {"POST", "PUT", "PATCH"}

\* body argument: absent, JSON-encodable, or not encodable (bodyJson fails)
Bodies == {"none", "ok", "bad"}

\* statuses a transport may answer with; both edges of [200, 300)
Statuses == {199, 200, 299, 300}

\* response bodies: parses and conforms to the schema; parses but the schema
\* rejects it; not JSON but readable as text; neither json nor text readable
RespBodies == {"valid", "nonconforming", "notjson", "unreadable"}

Input == "https://x/ok"
NoStatus == -1

NoErr == [kind |-> "none"]
NoResp == [status |-> NoStatus, body |-> "none"]
NoResult == [tag |-> "pending"]

VARIABLES
    method, body, retries, schema, onError,  \* the call's arguments
    signal,         \* options.signal: "none", or an AbortSignal "live" / "aborted"
    pc,             \* position of the fiber running the returned Effect
    attempt,        \* let attempt = 0
    recurs,         \* retries already granted by Schedule.recurs
    delay,          \* what is left of the sleep the schedule imposed
    resp,           \* response held by the running executeRequest
    rawData,        \* decoded body held by the running executeRequest
    err,            \* value in the failure channel
    result,         \* what the returned Effect completed with
    transportCalls, \* number of client.execute(req) calls started
    schemaCalls,    \* number of schema(data) calls
    onErrorLog,     \* arguments of the onError calls, in order
    attemptLog,     \* what each run of executeRequest ended with
    interrupted,    \* attempts whose transport call was interrupted by the timeout
    \* several runs of fetcher Effects side by side, each with its own closure
    runs,           \* run -> its options, position, counters, error and result
    script,         \* answers of a stub transport by attempt number; <<>>: any
    \* one call of buildQueryString
    params,         \* the QueryParams mapping, as its entries in iteration order
    query,          \* the entries appended to urlParams, in order
    queried,        \* buildQueryString has returned
    \* the SecureImageUpload component
    files,          \* useFileManagement's files state, as the files' ids
    upErrors,       \* useFileManagement's errors state, as the errors' types
    validating,     \* batches of processFiles calls awaiting validateFile
    nextId,         \* ids handed out so far
    useEnhancedAnalysis, \* the prop useEnhancedAnalysis
    processingProgress,  \* useAIAnalysis's processingProgress, as its keys
    results,        \* useAIAnalysis's results, as its keys
    analysis,       \* runPipelineForImage of each image: none, running, succeeded, failed
    \* FDCClient.makeRequest
    retryAttempts,  \* this.retryAttempts
    fdcPc,          \* where makeRequest stands
    fdcAttempt,     \* the loop's attempt
    fetchCalls,     \* calls of fetch so far
    timeoutId,      \* the timer set before the loop: armed, cleared or fired
    aborted,        \* controller.signal.aborted
    lastError,      \* the loop's lastError
    fdcResult,      \* what makeRequest returned or threw
    fdcDelay,       \* the argument of the last this.delay
    \* one MediastackAPI instance
    msNow,          \* Date.now(), in units of half a minRequestInterval
    lastRequestTime, \* this.lastRequestTime
    requestCount,   \* this.requestCount
    callers,        \* each makeRequest call: where it stands and when its timer is due
    issued,         \* the times at which fetch was called
    \* the TicTacToe component
    players,        \* players: the marks of human and ai
    gameState,      \* gameState
    grid,           \* grid
    winner,         \* winner
    nextMove,       \* nextMove
    appear,         \* appear
    aiTimer,        \* the timeout of the AI effect is pending
    \* the DataLoader component
    ldPc,           \* where the query of the DataLoader stands
    ldRecurs,       \* retries the fetcher made within the current queryFn
    ldCalls,        \* physical HTTP attempts made for the query
    failureCount,   \* failureCount of the query's retry function
    ldError,        \* status of the error at hand
    clientErrorAt,  \* the attempt first answered with a 4xx status, 0 if none
    \* the clock of the fetcher's timeout
    overdueAttempt  \* the attempt whose timeout duration has run out, 0 if none

\* the state of the other components, which a fetcher step leaves alone
vars_runs == <<runs, script>>
vars_query == <<params, query, queried>>
vars_upload == <<files, upErrors, validating, nextId, useEnhancedAnalysis,
                 processingProgress, results, analysis>>
vars_fdc == <<retryAttempts, fdcPc, fdcAttempt, fetchCalls, timeoutId, aborted,
              lastError, fdcResult, fdcDelay>>
vars_ms == <<msNow, lastRequestTime, requestCount, callers, issued>>
vars_game == <<players, gameState, grid, winner, nextMove, appear, aiTimer>>
vars_loader == <<ldPc, ldRecurs, ldCalls, failureCount, ldError, clientErrorAt>>
vars_deadline == <<overdueAttempt>>
others == <<vars_runs, vars_query, vars_upload, vars_fdc, vars_ms, vars_game, vars_loader, vars_deadline>>

RunsIdle == runs = <<>> /\ script = <<>>
QueryIdle == params = <<>> /\ query = <<>> /\ queried = FALSE
UploadIdle ==
    /\ files = <<>> /\ upErrors = <<>> /\ validating = <<>> /\ nextId = 0
    /\ useEnhancedAnalysis = FALSE /\ processingProgress = {} /\ results = {}
    /\ analysis = <<>>
NoFdcError == [name |-> "none", status |-> NoStatus]
FdcIdle ==
    /\ retryAttempts = 0
    /\ fdcPc = "idle"
    /\ fdcAttempt = 0
    /\ fetchCalls = 0
    /\ timeoutId = "none"
    /\ aborted = FALSE
    /\ lastError = NoFdcError
    /\ fdcResult = NoFdcError
    /\ fdcDelay = 0

MsIdle ==
    /\ msNow = 0
    /\ lastRequestTime = 0
    /\ requestCount = 0
    /\ callers = <<>>
    /\ issued = <<>>

GameIdle ==
    /\ players = <<>>
    /\ gameState = "unmounted"
    /\ grid = <<>>
    /\ winner = "none"
    /\ nextMove = "none"
    /\ appear = FALSE
    /\ aiTimer = FALSE

LoaderIdle ==
    /\ ldPc = "unmounted"
    /\ ldRecurs = 0
    /\ ldCalls = 0
    /\ failureCount = 0
    /\ ldError = NoStatus
    /\ clientErrorAt = 0

DeadlineIdle ==
    overdueAttempt = 0

\* the other components are not running
OthersIdle == RunsIdle /\ QueryIdle /\ UploadIdle /\ FdcIdle /\ MsIdle /\ GameIdle /\ LoaderIdle /\ DeadlineIdle

vars == <<method, body, retries, schema, onError, signal, pc, attempt,
          recurs, delay, resp, rawData, err, result, transportCalls,
          schemaCalls, onErrorLog, attemptLog, interrupted, others>>

args == <<method, body, retries, schema, onError, signal>>

\* everything one fetcher request owns
vars_fetcher == <<args, pc, attempt, recurs, delay, resp, rawData, err,
                  result, transportCalls, schemaCalls, onErrorLog, attemptLog,
                  interrupted>>

\* const url = params ? `${input}?${buildQueryString(params)}` : input; the
\* request is issued without params
url == Input

\* variant: a fixed spacing (Schedule.spaced) in place of the doubling
PowFixed(n) == 1

RECURSIVE Pow2(_)
Pow2(n) == IF n = 0 THEN 1 ELSE 2 * Pow2(n - 1)

\* new FetcherError(message, url, status, responseData, attempt); kind stands
\* for the message the error is built with
FetcherError(kind, status, data, att) ==
    [cls |-> "FetcherError", kind |-> kind, url |-> url, status |-> status,
     data |-> data, attempt |-> att, problems |-> ""]

\* new ValidationError(message, url, problems, responseData, attempt)
ValidationError(data, att) ==
    [cls |-> "ValidationError", kind |-> "validation", url |-> url,
     status |-> NoStatus, data |-> data, attempt |-> att,
     problems |-> "summary"]

\* Effect.succeed(result as T), as an attempt's outcome
Succeed(data, att) ==
    [cls |-> "Success", kind |-> "success", url |-> url,
     status |-> NoStatus, data |-> data, attempt |-> att, problems |-> ""]

\* if (onError) onError(e)
Notify(e) == IF onError THEN Append(onErrorLog, e) ELSE onErrorLog

\* variant: both comparisons moved by one
IsHttpErrorShifted(status) == status <= 200 \/ status > 300

\* response.status < 200 || response.status >= 300
IsHttpError(status) == status < 200 \/ status >= 300

\* response.json succeeds
Parses(b) == b \in {"valid", "nonconforming"}

\* the returned Effect starts to run: let attempt = 0, nothing done yet
InitRun ==
    /\ pc = "start"
    /\ attempt = 0
    /\ recurs = 0
    /\ delay = 0
    /\ resp = NoResp
    /\ rawData = "none"
    /\ err = NoErr
    /\ result = NoResult
    /\ transportCalls = 0
    /\ schemaCalls = 0
    /\ onErrorLog = <<>>
    /\ attemptLog = <<>>
    /\ interrupted = {}

Init ==
    /\ method \in Methods
    /\ body \in Bodies
    /\ method \notin BodyMethods => body = "none"
    /\ retries \in 0..MaxRetries
    /\ schema \in BOOLEAN
    /\ onError \in BOOLEAN
    /\ signal = "none"
    /\ InitRun
    /\ OthersIdle

\* variant: the encoding failure is not mapped and escapes as a fault
BuildRequestUnmapped ==
    /\ pc = "start"
    /\ IF body /= "none" /\ method \in BodyMethods /\ body = "bad"
       THEN /\ result' = [tag |-> "Fault"]
            /\ pc' = "died"
       ELSE /\ result' = result
            /\ pc' = "ready"
    /\ UNCHANGED <<args, others, attempt, recurs, delay, resp, rawData, err,
                   transportCalls, schemaCalls, onErrorLog, attemptLog,
                   interrupted>>

\* buildRequest, setHeaders and HttpClientRequest.bodyJson(body)(req)
BuildRequest ==
    /\ pc = "start"
    /\ IF body /= "none" /\ method \in BodyMethods /\ body = "bad"
       THEN /\ result' = [tag |-> "Failure",
                          error |-> FetcherError("serialization", NoStatus,
                                                 "undefined", attempt)]
            /\ pc' = "done"
       ELSE /\ result' = result
            /\ pc' = "ready"
    /\ UNCHANGED <<args, others, attempt, recurs, delay, resp, rawData, err,
                   transportCalls, schemaCalls, onErrorLog, attemptLog,
                   interrupted>>

\* executeRequest: attempt++ and client.execute(req) under withTimeout
ExecuteRequest ==
    /\ pc = "ready"
    /\ attempt' = attempt + 1
    /\ transportCalls' = transportCalls + 1
    /\ resp' = NoResp
    /\ rawData' = "none"
    /\ err' = NoErr
    /\ delay' = 0
    /\ pc' = "inflight"
    /\ UNCHANGED <<args, others, recurs, result, schemaCalls, onErrorLog, attemptLog,
                   interrupted>>

\* client.execute(req) yields a response before the timer
TransportResponds ==
    /\ pc = "inflight"
    /\ \E s \in Statuses, b \in RespBodies :
          resp' = [status |-> s, body |-> b]
    /\ pc' = "received"
    /\ UNCHANGED <<args, others, attempt, recurs, delay, rawData, err, result,
                   transportCalls, schemaCalls, onErrorLog, attemptLog,
                   interrupted>>

\* client.execute(req) fails; mapError wraps the error
TransportFails ==
    /\ pc = "inflight"
    /\ err' = FetcherError("transport", NoStatus, "undefined", attempt)
    /\ attemptLog' = Append(attemptLog, err')
    /\ pc' = "failed"
    /\ UNCHANGED <<args, others, attempt, recurs, delay, resp, rawData, result,
                   transportCalls, schemaCalls, onErrorLog, interrupted>>

\* Effect.timeoutFail: the timer wins the race, the transport call is
\* interrupted and onTimeout builds the error
TimeoutFires ==
    /\ pc = "inflight"
    /\ err' = FetcherError("timeout", NoStatus, "undefined", attempt)
    /\ attemptLog' = Append(attemptLog, err')
    /\ interrupted' = interrupted \cup {attempt}
    /\ pc' = "failed"
    /\ UNCHANGED <<args, others, attempt, recurs, delay, resp, rawData, result,
                   transportCalls, schemaCalls, onErrorLog>>

\* variant: the timeout does not interrupt the transport call, whose answer
\* is then handed to the logical request
LateResponseDelivered ==
    /\ \E k \in interrupted : interrupted' = interrupted \ {k}
    /\ \E s \in Statuses, b \in RespBodies :
          resp' = [status |-> s, body |-> b]
    /\ pc' = IF pc = "done" THEN pc ELSE "received"
    /\ UNCHANGED <<args, others, attempt, recurs, delay, rawData, err,
                   result, transportCalls, schemaCalls, onErrorLog,
                   attemptLog>>

\* the answer to an interrupted transport call arrives; its fiber is gone
LateResponse ==
    /\ \E k \in interrupted : interrupted' = interrupted \ {k}
    /\ UNCHANGED <<args, others, pc, attempt, recurs, delay, resp, rawData, err,
                   result, transportCalls, schemaCalls, onErrorLog,
                   attemptLog>>

\* variant: the diagnostic response.json is not caught, its failure becomes
\* the attempt's failure
HttpStatusBranchStrict ==
    /\ pc = "received"
    /\ IsHttpError(resp.status)
    /\ IF Parses(resp.body)
       THEN /\ err' = FetcherError("http", resp.status, resp.body, attempt)
            /\ onErrorLog' = Notify(err')
       ELSE /\ err' = FetcherError("decode", resp.status, "undefined",
                                   attempt)
            /\ UNCHANGED onErrorLog
    /\ attemptLog' = Append(attemptLog, err')
    /\ pc' = "failed"
    /\ UNCHANGED <<args, others, attempt, recurs, delay, resp, rawData,
                   result, transportCalls, schemaCalls, interrupted>>

\* if (response.status < 200 || response.status >= 300) { ... }
HttpStatusBranch ==
    /\ pc = "received"
    /\ IsHttpError(resp.status)
    /\ LET errorData == IF Parses(resp.body) THEN resp.body ELSE "undefined"
           error == FetcherError("http", resp.status, errorData, attempt)
       IN /\ err' = error
          /\ onErrorLog' = Notify(error)
          /\ attemptLog' = Append(attemptLog, error)
    /\ pc' = "failed"
    /\ UNCHANGED <<args, others, attempt, recurs, delay, resp, rawData, result,
                   transportCalls, schemaCalls, interrupted>>

\* variant: a body that is not JSON but readable falls back to its text
ParseBodyTextFallback ==
    /\ pc = "received"
    /\ ~IsHttpError(resp.status)
    /\ IF Parses(resp.body) \/ resp.body = "notjson"
       THEN /\ rawData' = resp.body
            /\ pc' = "parsed"
            /\ UNCHANGED <<err, attemptLog>>
       ELSE /\ err' = FetcherError("decode", resp.status, "undefined",
                                   attempt)
            /\ attemptLog' = Append(attemptLog, err')
            /\ pc' = "failed"
            /\ UNCHANGED rawData
    /\ UNCHANGED <<args, others, attempt, recurs, delay, resp, result,
                   transportCalls, schemaCalls, onErrorLog, interrupted>>

\* const rawData = yield* pipe(response.json, Effect.catchAll(...))
ParseBody ==
    /\ pc = "received"
    /\ ~IsHttpError(resp.status)
    /\ IF Parses(resp.body)
       THEN /\ rawData' = resp.body
            /\ pc' = "parsed"
            /\ UNCHANGED <<err, attemptLog>>
       ELSE /\ err' = FetcherError("decode", resp.status,
                                   IF resp.body = "notjson" THEN "text"
                                   ELSE "undefined", attempt)
            /\ attemptLog' = Append(attemptLog, err')
            /\ pc' = "failed"
            /\ UNCHANGED rawData
    /\ UNCHANGED <<args, others, attempt, recurs, delay, resp, result,
                   transportCalls, schemaCalls, onErrorLog, interrupted>>

\* variant: Effect.repeat in place of Effect.retry, a success recurs too
ValidateResponseRepeat ==
    /\ pc = "parsed"
    /\ IF schema /\ rawData = "nonconforming"
       THEN /\ err' = ValidationError(rawData, attempt)
            /\ onErrorLog' = Notify(err')
            /\ attemptLog' = Append(attemptLog, err')
            /\ pc' = "failed"
            /\ UNCHANGED <<result, recurs>>
       ELSE /\ attemptLog' = Append(attemptLog,
                                    Succeed(rawData, attempt))
            /\ UNCHANGED <<err, onErrorLog>>
            /\ IF recurs < retries
               THEN /\ recurs' = recurs + 1
                    /\ pc' = "backoff"
                    /\ UNCHANGED result
               ELSE /\ result' = [tag |-> "Success", value |-> rawData]
                    /\ pc' = "done"
                    /\ UNCHANGED recurs
    /\ schemaCalls' = IF schema THEN schemaCalls + 1 ELSE schemaCalls
    /\ UNCHANGED <<args, others, attempt, delay, resp, rawData,
                   transportCalls, interrupted>>

\* validateResponse(rawData, attempt); success completes the whole Effect
ValidateResponse ==
    /\ pc = "parsed"
    /\ IF schema /\ rawData = "nonconforming"
       THEN /\ err' = ValidationError(rawData, attempt)
            /\ onErrorLog' = Notify(err')
            /\ attemptLog' = Append(attemptLog, err')
            /\ pc' = "failed"
            /\ UNCHANGED result
       ELSE /\ result' = [tag |-> "Success", value |-> rawData]
            /\ attemptLog' = Append(attemptLog,
                                    Succeed(rawData, attempt))
            /\ pc' = "done"
            /\ UNCHANGED <<err, onErrorLog>>
    /\ schemaCalls' = IF schema THEN schemaCalls + 1 ELSE schemaCalls
    /\ UNCHANGED <<args, others, attempt, recurs, delay, resp, rawData,
                   transportCalls, interrupted>>

\* variant: the schedule grants one recurrence too many
RetryOffByOne ==
    /\ pc = "failed"
    /\ IF recurs <= retries
       THEN /\ delay' = DefaultRetryDelay * Pow2(recurs)
            /\ recurs' = recurs + 1
            /\ pc' = "backoff"
       ELSE /\ pc' = "exhausted"
            /\ UNCHANGED <<delay, recurs>>
    /\ UNCHANGED <<args, others, attempt, resp, rawData, err, result, transportCalls,
                   schemaCalls, onErrorLog, attemptLog, interrupted>>

\* variant: only timeout, transport and status failures are retried
RetryTransientOnly ==
    /\ pc = "failed"
    /\ IF recurs < retries /\ err.kind \in {"timeout", "transport", "http"}
       THEN /\ delay' = DefaultRetryDelay * Pow2(recurs)
            /\ recurs' = recurs + 1
            /\ pc' = "backoff"
       ELSE /\ pc' = "exhausted"
            /\ UNCHANGED <<delay, recurs>>
    /\ UNCHANGED <<args, others, attempt, resp, rawData, err, result, transportCalls,
                   schemaCalls, onErrorLog, attemptLog, interrupted>>

\* Effect.retry(retrySchedule): Schedule.recurs(retries) grants or refuses,
\* Schedule.exponential(retryDelay) gives the sleep
Retry ==
    /\ pc = "failed"
    /\ IF recurs < retries
       THEN /\ delay' = DefaultRetryDelay * Pow2(recurs)
            /\ recurs' = recurs + 1
            /\ pc' = "backoff"
       ELSE /\ pc' = "exhausted"
            /\ UNCHANGED <<delay, recurs>>
    /\ UNCHANGED <<args, others, attempt, resp, rawData, err, result, transportCalls,
                   schemaCalls, onErrorLog, attemptLog, interrupted>>

\* time passes while the fiber sleeps between two attempts
SleepTick ==
    /\ pc = "backoff"
    /\ delay > 0
    /\ delay' = delay - DefaultRetryDelay
    /\ UNCHANGED <<args, others, pc, attempt, recurs, resp, rawData, err, result,
                   transportCalls, schemaCalls, onErrorLog, attemptLog,
                   interrupted>>

\* variant: the next attempt does not wait for the sleep to end
BackoffElapsedEarly ==
    /\ pc = "backoff"
    /\ pc' = "ready"
    /\ UNCHANGED <<args, others, attempt, recurs, delay, resp, rawData, err, result,
                   transportCalls, schemaCalls, onErrorLog, attemptLog,
                   interrupted>>

\* the schedule's sleep is over; executeRequest runs again
BackoffElapsed ==
    /\ pc = "backoff"
    /\ delay = 0
    /\ pc' = "ready"
    /\ UNCHANGED <<args, others, attempt, recurs, delay, resp, rawData, err, result,
                   transportCalls, schemaCalls, onErrorLog, attemptLog,
                   interrupted>>

\* variant: the first failure is kept across the retries
CatchAllFirst ==
    /\ pc = "exhausted"
    /\ onErrorLog' = Notify(attemptLog[1])
    /\ result' = [tag |-> "Failure", error |-> attemptLog[1]]
    /\ pc' = "done"
    /\ UNCHANGED <<args, others, attempt, recurs, delay, resp, rawData, err,
                   transportCalls, schemaCalls, attemptLog, interrupted>>

\* Effect.catchAll((error) => { if (onError) onError(error); fail(error) })
CatchAll ==
    /\ pc = "exhausted"
    /\ onErrorLog' = Notify(err)
    /\ result' = [tag |-> "Failure", error |-> err]
    /\ pc' = "done"
    /\ UNCHANGED <<args, others, attempt, recurs, delay, resp, rawData, err,
                   transportCalls, schemaCalls, attemptLog, interrupted>>

Next ==
    \/ BuildRequest
    \/ ExecuteRequest
    \/ TransportResponds
    \/ TransportFails
    \/ TimeoutFires
    \/ LateResponse
    \/ HttpStatusBranch
    \/ ParseBody
    \/ ValidateResponse
    \/ Retry
    \/ SleepTick
    \/ BackoffElapsed
    \/ CatchAll

Spec == Init /\ [][Next]_vars

\* requests that take every path: a GET, a POST with a body that encodes or
\* does not, any schema and retry count, an observer supplied
InitFair ==
    /\ Init
    /\ method \in {"GET", "POST"}
    /\ method = "POST" => body /= "none"
    /\ onError

\* the fiber is always scheduled again, timers fire and the transport and the
\* body reads end
FairSpec == InitFair /\ [][Next]_vars /\ WF_vars(Next)

\* ---- a request given an AbortSignal the caller may abort ------------------
InitCancel ==
    /\ method = "GET"
    /\ body = "none"
    /\ retries \in 0..MaxRetries
    /\ schema \in BOOLEAN
    /\ onError \in BOOLEAN
    /\ signal = "live"
    /\ InitRun
    /\ OthersIdle

\* the caller aborts its AbortController; fetcher never reads options.signal
\* and does not hand it to the request
CallerAborts ==
    /\ signal = "live"
    /\ signal' = "aborted"
    /\ UNCHANGED <<method, body, retries, schema, onError, others, pc,
                   attempt, recurs, delay, resp, rawData, err, result,
                   transportCalls, schemaCalls, onErrorLog, attemptLog,
                   interrupted>>

NextCancel ==
    \/ Next
    \/ CallerAborts

SpecCancel == InitCancel /\ [][NextCancel]_vars

\* ---- several logical requests side by side ----------------------------------
\* Each run of a fetcher Effect executes Effect.gen's body afresh: its own
\* attempt counter, schedule state and failure channel.  An attempt is taken
\* as one step from client.execute to its outcome.
Runs == {1, 2}

\* how a physical attempt may end: a failure reported to onError when it is
\* classified, a failure that is not, or a success
AttemptEnds == {"http", "transport", "success"}

NoRunErr == [kind |-> "none", attempt |-> 0]
NoRunResult == [tag |-> "pending", kind |-> "none", attempt |-> 0]

\* no single fetcher request is being followed
FetcherIdle ==
    /\ method = "GET"
    /\ body = "none"
    /\ retries = 0
    /\ schema = FALSE
    /\ onError = FALSE
    /\ signal = "none"
    /\ pc = "idle"
    /\ attempt = 0
    /\ recurs = 0
    /\ delay = 0
    /\ resp = NoResp
    /\ rawData = "none"
    /\ err = NoErr
    /\ result = NoResult
    /\ transportCalls = 0
    /\ schemaCalls = 0
    /\ onErrorLog = <<>>
    /\ attemptLog = <<>>
    /\ interrupted = {}

\* what a step of a run leaves alone besides the runs
outside_runs == <<vars_fetcher, vars_query, vars_upload, vars_fdc, vars_ms, vars_game, vars_loader, vars_deadline>>

\* Effect.gen starts: let attempt = 0
NewRun(r, observed) ==
    [retries |-> r, onError |-> observed, pc |-> "ready", attempt |-> 0,
     recurs |-> 0, calls |-> 0, err |-> NoRunErr, result |-> NoRunResult,
     notified |-> 0]

\* independent requests against a live transport
InitTwo ==
    /\ FetcherIdle
    /\ QueryIdle /\ UploadIdle /\ FdcIdle /\ MsIdle /\ GameIdle /\ LoaderIdle /\ DeadlineIdle
    /\ runs \in [Runs -> {NewRun(r, o) : r \in 0..MaxRetries, o \in BOOLEAN}]
    /\ script = <<>>

\* the same request run with and without an onError observer against a stub
\* transport that gives the same answers to both
InitPair ==
    /\ FetcherIdle
    /\ QueryIdle /\ UploadIdle /\ FdcIdle /\ MsIdle /\ GameIdle /\ LoaderIdle /\ DeadlineIdle
    /\ \E r \in 0..MaxRetries :
          runs = [p \in Runs |-> NewRun(r, p = 1)]
    /\ script \in [1..(MaxRetries + 1) -> AttemptEnds]

\* variant: the attempt counter lives outside Effect.gen and is shared by
\* the runs
RunExecuteSharedCounter(p) ==
    /\ runs[p].pc = "ready"
    /\ LET high == CHOOSE n \in {runs[q].attempt : q \in Runs} :
                      \A q \in Runs : runs[q].attempt <= n
       IN runs' = [q \in Runs |->
                     IF q = p
                     THEN [runs[q] EXCEPT !.attempt = high + 1,
                                          !.calls = @ + 1,
                                          !.pc = "inflight"]
                     ELSE [runs[q] EXCEPT !.attempt = high + 1]]
    /\ UNCHANGED <<outside_runs, script>>

\* executeRequest of run p: attempt++ and client.execute(req)
RunExecute(p) ==
    /\ runs[p].pc = "ready"
    /\ runs' = [runs EXCEPT ![p].attempt = @ + 1,
                            ![p].calls = @ + 1,
                            ![p].pc = "inflight"]
    /\ UNCHANGED <<outside_runs, script>>

\* the attempt of run p ends with a failure; a status failure is reported to
\* onError on the spot
RunAttemptFails(p) ==
    /\ runs[p].pc = "inflight"
    /\ \E k \in AttemptEnds \ {"success"} :
          /\ script /= <<>> => k = script[runs[p].attempt]
          /\ runs' = [runs EXCEPT
                        ![p].err = [kind |-> k, attempt |-> runs[p].attempt],
                        ![p].notified =
                            IF runs[p].onError /\ k = "http" THEN @ + 1 ELSE @,
                        ![p].pc = "failed"]
    /\ UNCHANGED <<outside_runs, script>>

\* the attempt of run p succeeds, which completes the run
RunAttemptSucceeds(p) ==
    /\ runs[p].pc = "inflight"
    /\ script /= <<>> => script[runs[p].attempt] = "success"
    /\ runs' = [runs EXCEPT
                  ![p].result = [tag |-> "Success", kind |-> "success",
                                 attempt |-> runs[p].attempt],
                  ![p].pc = "done"]
    /\ UNCHANGED <<outside_runs, script>>

\* variant: a failure the observer has seen is taken as handled and not
\* retried
RunRetryUnlessObserved(p) ==
    /\ runs[p].pc = "failed"
    /\ IF runs[p].recurs < runs[p].retries
          /\ ~(runs[p].onError /\ runs[p].err.kind = "http")
       THEN runs' = [runs EXCEPT ![p].recurs = @ + 1, ![p].pc = "ready"]
       ELSE runs' = [runs EXCEPT
                       ![p].result = [tag |-> "Failure",
                                      kind |-> runs[p].err.kind,
                                      attempt |-> runs[p].err.attempt],
                       ![p].notified = IF runs[p].onError THEN @ + 1 ELSE @,
                       ![p].pc = "done"]
    /\ UNCHANGED <<outside_runs, script>>

\* Effect.retry and the final catchAll of run p
RunRetry(p) ==
    /\ runs[p].pc = "failed"
    /\ IF runs[p].recurs < runs[p].retries
       THEN runs' = [runs EXCEPT ![p].recurs = @ + 1, ![p].pc = "ready"]
       ELSE runs' = [runs EXCEPT
                       ![p].result = [tag |-> "Failure",
                                      kind |-> runs[p].err.kind,
                                      attempt |-> runs[p].err.attempt],
                       ![p].notified = IF runs[p].onError THEN @ + 1 ELSE @,
                       ![p].pc = "done"]
    /\ UNCHANGED <<outside_runs, script>>

NextRuns ==
    \E p \in Runs :
        \/ RunExecute(p)
        \/ RunAttemptFails(p)
        \/ RunAttemptSucceeds(p)
        \/ RunRetry(p)

SpecTwo == InitTwo /\ [][NextRuns]_vars

SpecPair == InitPair /\ [][NextRuns]_vars

\* ---- buildQueryString ---------------------------------------------------------
MaxParams == 2
MaxArr == 2

Keys == {"a", "b", "c"}
Null == [t |-> "null"]
Undefined == [t |-> "undefined"]
Scalars == {[t |-> "string", s |-> "x"], [t |-> "string", s |-> ""],
            [t |-> "number", n |-> 0], [t |-> "boolean", b |-> FALSE]}
\* what an array may hold at run time
Items == {Null, [t |-> "string", s |-> "x"], [t |-> "number", n |-> 0]}

SeqsUpTo(S, n) == UNION {[1..k -> S] : k \in 0..n}
Arrays == {[t |-> "array", a |-> a] : a \in SeqsUpTo(Items, MaxArr)}
Values == {Null, Undefined} \cup Scalars \cup Arrays

\* mappings: entries with pairwise different keys
Mapping(ks, vs) == [i \in DOMAIN ks |-> [key |-> ks[i], value |-> vs[i]]]
DistinctKeys(ks) == \A i, j \in DOMAIN ks : i /= j => ks[i] /= ks[j]

\* String(value)
String(v) ==
    CASE v.t = "string" -> v.s
      [] v.t = "number" -> (IF v.n = 0 THEN "0" ELSE "1")
      [] v.t = "boolean" -> (IF v.b THEN "true" ELSE "false")
      [] v.t = "null" -> "null"
      [] v.t = "undefined" -> "undefined"

\* value == null
IsNullish(v) == v.t \in {"null", "undefined"}

\* value.filter((item) => item != null).forEach((item) =>
\*     urlParams.append(key, String(item)))
RECURSIVE AppendItems(_, _)
AppendItems(key, a) ==
    IF a = <<>> THEN <<>>
    ELSE (IF IsNullish(Head(a)) THEN <<>>
          ELSE <<[key |-> key, value |-> String(Head(a))]>>)
         \o AppendItems(key, Tail(a))

\* variant: the array's items are appended without the filter
RECURSIVE AppendItemsUnfiltered(_, _)
AppendItemsUnfiltered(key, a) ==
    IF a = <<>> THEN <<>>
    ELSE <<[key |-> key, value |-> String(Head(a))]>>
         \o AppendItemsUnfiltered(key, Tail(a))

\* variant: every item of an array goes into the query, null included
EntryAppendsAll(key, value) ==
    IF IsNullish(value) THEN <<>>
    ELSE IF value.t = "array" THEN AppendItemsUnfiltered(key, value.a)
    ELSE <<[key |-> key, value |-> String(value)]>>

\* the body of the forEach over Object.entries(params)
EntryAppends(key, value) ==
    IF IsNullish(value) THEN <<>>
    ELSE IF value.t = "array" THEN AppendItems(key, value.a)
    ELSE <<[key |-> key, value |-> String(value)]>>

RECURSIVE buildQueryString(_)
buildQueryString(m) ==
    IF m = <<>> THEN <<>>
    ELSE EntryAppends(Head(m).key, Head(m).value)
         \o buildQueryString(Tail(m))

InitQuery ==
    /\ FetcherIdle
    /\ RunsIdle /\ UploadIdle /\ FdcIdle /\ MsIdle /\ GameIdle /\ LoaderIdle /\ DeadlineIdle
    /\ \E k \in 0..MaxParams :
          \E ks \in [1..k -> Keys], vs \in [1..k -> Values] :
             /\ DistinctKeys(ks)
             /\ params = Mapping(ks, vs)
    /\ query = <<>>
    /\ queried = FALSE

CallBuildQueryString ==
    /\ ~queried
    /\ query' = buildQueryString(params)
    /\ queried' = TRUE
    /\ UNCHANGED <<vars_fetcher, vars_runs, vars_upload, vars_fdc, vars_deadline, vars_loader, vars_game, vars_ms, params>>

NextQuery == CallBuildQueryString

SpecQuery == InitQuery /\ [][NextQuery]_vars

\* ---- SecureImageUpload: the list of files ----------------------------------------
MaxFiles == 5
MaxBatch == 3
MaxIds == 6
MaxPending == 1

\* a dropped or selected file either passes validateFile or does not
Batches == UNION {[1..n -> BOOLEAN] : n \in 1..MaxBatch}

outside_upload == <<vars_fetcher, vars_runs, vars_query, vars_fdc, vars_ms, vars_game, vars_loader, vars_deadline>>

RECURSIVE Accepted(_, _)
\* the ImageFiles made of the files of a batch that passed, ids from id + 1 on
Accepted(batch, id) ==
    IF batch = <<>> THEN <<>>
    ELSE IF Head(batch) THEN <<id + 1>> \o Accepted(Tail(batch), id + 1)
    ELSE Accepted(Tail(batch), id)

InitUpload ==
    /\ FetcherIdle
    /\ RunsIdle /\ QueryIdle /\ FdcIdle /\ MsIdle /\ GameIdle /\ LoaderIdle /\ DeadlineIdle
    /\ files = <<>>
    /\ upErrors = <<>>
    /\ validating = <<>>
    /\ nextId = 0
    /\ useEnhancedAnalysis \in BOOLEAN
    /\ processingProgress = {}
    /\ results = {}
    /\ analysis = [id \in 1..MaxIds |-> "none"]

\* handleDrop / handleFileSelect -> processFiles up to its first await; the
\* const files = Array.from(fileList) hides the component's files
ProcessFilesStart ==
    /\ Len(validating) < MaxPending
    /\ \E batch \in Batches :
          /\ nextId + Len(batch) <= MaxIds
          /\ IF Len(batch) + Len(batch) > MaxFiles
             THEN /\ upErrors' = <<"general">>
                  /\ UNCHANGED validating
             ELSE /\ upErrors' = <<>>
                  /\ validating' = Append(validating, batch)
    /\ UNCHANGED <<outside_upload, files, nextId, useEnhancedAnalysis,
                   processingProgress, results, analysis>>

\* processFiles after the validation loop: addFiles(processedFiles) and the
\* start of the analysis of each file added
ProcessFilesFinish ==
    /\ \E i \in DOMAIN validating :
          LET batch == validating[i]
              processedFiles == Accepted(batch, nextId)
          IN /\ files' = files \o processedFiles
             /\ nextId' = nextId + Len(processedFiles)
             /\ upErrors' = IF \E k \in DOMAIN batch : ~batch[k]
                            THEN <<"file">> ELSE upErrors
             /\ validating' = SubSeq(validating, 1, i - 1)
                                \o SubSeq(validating, i + 1, Len(validating))
             /\ LET added == {processedFiles[k] : k \in DOMAIN processedFiles}
                IN /\ processingProgress' =
                         IF useEnhancedAnalysis
                         THEN processingProgress \cup added
                         ELSE processingProgress
                   /\ analysis' = [id \in DOMAIN analysis |->
                                     IF id \in added THEN "running"
                                     ELSE analysis[id]]
    /\ UNCHANGED <<outside_upload, useEnhancedAnalysis, results>>

\* handleRemoveFile(id) -> removeFile(id), removeResult(id)
RemoveFile ==
    /\ \E i \in DOMAIN files :
          /\ files' = SubSeq(files, 1, i - 1) \o SubSeq(files, i + 1, Len(files))
          /\ results' = results \ {files[i]}
    /\ UNCHANGED <<outside_upload, upErrors, validating, nextId,
                   useEnhancedAnalysis, processingProgress, analysis>>

\* handleClearAll -> clearAll, clearResults
ClearAll ==
    /\ files' = <<>>
    /\ upErrors' = <<>>
    /\ results' = {}
    /\ processingProgress' = {}
    /\ UNCHANGED <<outside_upload, validating, nextId, useEnhancedAnalysis,
                   analysis>>

\* runPipelineForImage resolves: handleAnalysisResult in the enhanced mode,
\* then(setResult) and finally in the traditional mode
AnalysisSucceeds ==
    /\ \E id \in DOMAIN analysis :
          /\ analysis[id] = "running"
          /\ analysis' = [analysis EXCEPT ![id] = "succeeded"]
          /\ results' = results \cup {id}
          /\ processingProgress' = processingProgress \ {id}
    /\ UNCHANGED <<outside_upload, files, upErrors, validating, nextId,
                   useEnhancedAnalysis>>

\* runPipelineForImage rejects: handleAnalysisError in the enhanced mode,
\* catch(setResult) and finally in the traditional mode
AnalysisFails ==
    /\ \E id \in DOMAIN analysis :
          /\ analysis[id] = "running"
          /\ analysis' = [analysis EXCEPT ![id] = "failed"]
          /\ IF useEnhancedAnalysis
             THEN UNCHANGED <<results, processingProgress>>
             ELSE /\ results' = results \cup {id}
                  /\ processingProgress' = processingProgress \ {id}
    /\ UNCHANGED <<outside_upload, files, upErrors, validating, nextId,
                   useEnhancedAnalysis>>

NextUpload ==
    \/ ProcessFilesStart
    \/ ProcessFilesFinish
    \/ RemoveFile
    \/ ClearAll
    \/ AnalysisSucceeds
    \/ AnalysisFails

SpecUpload == InitUpload /\ [][NextUpload]_vars

\* ---- FDCClient.makeRequest -------------------------------------------------------
MaxRetryAttempts == 3
FdcRetryDelay == 1000

FdcStatuses == {200, 400, 401, 404, 429, 500}
FdcBodies == {"conforming", "nonconforming", "notjson"}
NoRetryErrors == {"FDCRateLimitError", "FDCAuthError", "FDCValidationError"}

outside_fdc == <<vars_fetcher, vars_runs, vars_query, vars_upload, vars_ms, vars_game, vars_loader, vars_deadline>>

\* response.ok
Ok(status) == status >= 200 /\ status <= 299

\* the error handleHttpError throws for a response
handleHttpError(status) ==
    CASE status = 401 -> [name |-> "FDCAuthError", status |-> 401]
      [] status = 429 -> [name |-> "FDCRateLimitError", status |-> 429]
      [] OTHER -> [name |-> "FDCApiError", status |-> status]

clearTimeout(t) == IF t = "armed" THEN "cleared" ELSE t

InitFDC ==
    /\ FetcherIdle
    /\ RunsIdle /\ QueryIdle /\ UploadIdle /\ MsIdle /\ GameIdle /\ LoaderIdle /\ DeadlineIdle
    /\ retryAttempts \in 1..MaxRetryAttempts
    /\ fdcPc = "idle"
    /\ fdcAttempt = 0
    /\ fetchCalls = 0
    /\ timeoutId = "none"
    /\ aborted = FALSE
    /\ lastError = NoFdcError
    /\ fdcResult = NoFdcError
    /\ fdcDelay = 0

\* makeRequest up to the first await fetch
MakeRequest ==
    /\ fdcPc = "idle"
    /\ timeoutId' = "armed"
    /\ fdcAttempt' = 1
    /\ fetchCalls' = fetchCalls + 1
    /\ fdcPc' = "fetching"
    /\ UNCHANGED <<outside_fdc, retryAttempts, aborted, lastError, fdcResult,
                   fdcDelay>>

\* a catch block that retries whatever the error is
CatchRetryAll(error, timer) ==
    /\ lastError' = error
    /\ IF fdcAttempt < retryAttempts
       THEN /\ fdcPc' = "delaying"
            /\ fdcDelay' = FdcRetryDelay * fdcAttempt
            /\ timeoutId' = timer
            /\ UNCHANGED fdcResult
       ELSE /\ fdcPc' = "thrown"
            /\ fdcResult' = error
            /\ timeoutId' = clearTimeout(timer)
            /\ UNCHANGED fdcDelay
    /\ UNCHANGED <<outside_fdc, retryAttempts, fdcAttempt, fetchCalls, aborted>>

\* a catch block that waits retryDelay before every retry
CatchFixedDelay(error, timer) ==
    /\ lastError' = error
    /\ IF error.name \in NoRetryErrors
       THEN /\ fdcPc' = "thrown"
            /\ fdcResult' = error
            /\ timeoutId' = timer
            /\ UNCHANGED fdcDelay
       ELSE IF fdcAttempt < retryAttempts
       THEN /\ fdcPc' = "delaying"
            /\ fdcDelay' = FdcRetryDelay
            /\ timeoutId' = timer
            /\ UNCHANGED fdcResult
       ELSE /\ fdcPc' = "thrown"
            /\ fdcResult' = error
            /\ timeoutId' = clearTimeout(timer)
            /\ UNCHANGED fdcDelay
    /\ UNCHANGED <<outside_fdc, retryAttempts, fdcAttempt, fetchCalls, aborted>>

\* the catch block of the loop, and the loop's exit when it was the last attempt
Catch(error, timer) ==
    /\ lastError' = error
    /\ IF error.name \in NoRetryErrors
       THEN /\ fdcPc' = "thrown"
            /\ fdcResult' = error
            /\ timeoutId' = timer
            /\ UNCHANGED fdcDelay
       ELSE IF fdcAttempt < retryAttempts
       THEN /\ fdcPc' = "delaying"
            /\ fdcDelay' = FdcRetryDelay * fdcAttempt
            /\ timeoutId' = timer
            /\ UNCHANGED fdcResult
       ELSE /\ fdcPc' = "thrown"
            /\ fdcResult' = error
            /\ timeoutId' = clearTimeout(timer)
            /\ UNCHANGED fdcDelay
    /\ UNCHANGED <<outside_fdc, retryAttempts, fdcAttempt, fetchCalls, aborted>>

\* fetch resolves with a response: the rest of the try block
FetchResolves ==
    /\ fdcPc = "fetching"
    /\ ~aborted
    /\ \E status \in FdcStatuses, data \in FdcBodies :
          LET timer == clearTimeout(timeoutId)
          IN IF ~Ok(status) THEN Catch(handleHttpError(status), timer)
             ELSE IF data = "notjson"
             THEN Catch([name |-> "SyntaxError", status |-> NoStatus], timer)
             ELSE /\ fdcPc' = "returned"
                  /\ fdcResult' =
                        [name |-> IF data = "conforming" THEN "validationResult"
                                  ELSE "data",
                         status |-> status]
                  /\ timeoutId' = timer
                  /\ UNCHANGED <<outside_fdc, retryAttempts, fdcAttempt,
                                 fetchCalls, aborted, lastError, fdcDelay>>

\* fetch rejects: the network failed
FetchRejects ==
    /\ fdcPc = "fetching"
    /\ Catch([name |-> "TypeError", status |-> NoStatus], timeoutId)

\* fetch rejects: its signal is aborted
FetchAborted ==
    /\ fdcPc = "fetching"
    /\ aborted
    /\ Catch([name |-> "AbortError", status |-> NoStatus], timeoutId)

\* the timer set before the loop fires: controller.abort()
TimeoutElapses ==
    /\ timeoutId = "armed"
    /\ timeoutId' = "fired"
    /\ aborted' = TRUE
    /\ UNCHANGED <<outside_fdc, retryAttempts, fdcPc, fdcAttempt, fetchCalls,
                   lastError, fdcResult, fdcDelay>>

\* this.delay is over: attempt++ and the next await fetch
DelayElapses ==
    /\ fdcPc = "delaying"
    /\ fdcAttempt' = fdcAttempt + 1
    /\ fetchCalls' = fetchCalls + 1
    /\ fdcPc' = "fetching"
    /\ UNCHANGED <<outside_fdc, retryAttempts, timeoutId, aborted, lastError,
                   fdcResult, fdcDelay>>

NextFDC ==
    \/ MakeRequest
    \/ FetchResolves
    \/ FetchRejects
    \/ FetchAborted
    \/ TimeoutElapses
    \/ DelayElapses

SpecFDC == InitFDC /\ [][NextFDC]_vars

\* ---- MediastackAPI: rateLimitDelay ------------------------------------------------
MinRequestInterval == 2
MaxTime == 6
MaxCalls == 3

Calls == 1..MaxCalls
outside_ms == <<vars_fetcher, vars_runs, vars_query, vars_upload, vars_fdc, vars_game, vars_loader, vars_deadline>>

\* lastRequestTime starts at 0 and Date.now() is far from the epoch
InitMs ==
    /\ FetcherIdle
    /\ RunsIdle /\ QueryIdle /\ UploadIdle /\ FdcIdle /\ GameIdle /\ LoaderIdle /\ DeadlineIdle
    /\ msNow = MinRequestInterval
    /\ lastRequestTime = 0
    /\ requestCount = 0
    /\ callers = [c \in Calls |-> [at |-> "idle", due |-> 0]]
    /\ issued = <<>>

\* the end of rateLimitDelay and makeRequest's fetch(url)
Issue(c) ==
    /\ lastRequestTime' = msNow
    /\ requestCount' = requestCount + 1
    /\ issued' = Append(issued, msNow)
    /\ callers' = [callers EXCEPT ![c] = [at |-> "fetching", due |-> 0]]

\* a public method calls makeRequest: rateLimitDelay up to its await
CallMakeRequest(c) ==
    /\ callers[c].at = "idle"
    /\ LET timeSinceLastRequest == msNow - lastRequestTime
       IN IF timeSinceLastRequest < MinRequestInterval
          THEN /\ callers' = [callers EXCEPT ![c] =
                     [at |-> "waiting",
                      due |-> msNow + (MinRequestInterval - timeSinceLastRequest)]]
               /\ UNCHANGED <<lastRequestTime, requestCount, issued>>
          ELSE Issue(c)
    /\ UNCHANGED <<outside_ms, msNow>>

\* the setTimeout of rateLimitDelay resolves
DelayResolves(c) ==
    /\ callers[c].at = "waiting"
    /\ msNow >= callers[c].due
    /\ Issue(c)
    /\ UNCHANGED <<outside_ms, msNow>>

\* resetStats()
ResetStats ==
    /\ requestCount' = 0
    /\ lastRequestTime' = 0
    /\ UNCHANGED <<outside_ms, msNow, callers, issued>>

\* time passes
MsTick ==
    /\ msNow < MaxTime
    /\ msNow' = msNow + 1
    /\ UNCHANGED <<outside_ms, lastRequestTime, requestCount, callers, issued>>

NextMs ==
    \/ \E c \in Calls : CallMakeRequest(c)
    \/ \E c \in Calls : DelayResolves(c)
    \/ ResetStats
    \/ MsTick

SpecMs == InitMs /\ [][NextMs]_vars

\* ---- TicTacToe -------------------------------------------------------------------
DIMENSIONS == 3
PLAYER_X == "X"
PLAYER_O == "O"
DRAW == "draw"
NoMark == "null"

Squares == 0..(DIMENSIONS * DIMENSIONS - 1)
arr == [i \in Squares |-> NoMark]
outside_game == <<vars_fetcher, vars_runs, vars_query, vars_upload, vars_fdc, vars_ms, vars_loader, vars_deadline>>

\* the rows, columns and diagonals of the board
WinLines ==
    {{r * DIMENSIONS + c : c \in 0..(DIMENSIONS - 1)} : r \in 0..(DIMENSIONS - 1)}
    \cup {{r * DIMENSIONS + c : r \in 0..(DIMENSIONS - 1)} : c \in 0..(DIMENSIONS - 1)}
    \cup {{i * DIMENSIONS + i : i \in 0..(DIMENSIONS - 1)}}
    \cup {{i * DIMENSIONS + (DIMENSIONS - 1 - i) : i \in 0..(DIMENSIONS - 1)}}

\* board.getWinner(grid): the player owning a line, DRAW on a full board
getWinner(g) ==
    IF \E l \in WinLines : \A i \in l : g[i] = PLAYER_X THEN PLAYER_X
    ELSE IF \E l \in WinLines : \A i \in l : g[i] = PLAYER_O THEN PLAYER_O
    ELSE IF \A i \in Squares : g[i] /= NoMark THEN DRAW
    ELSE NoMark

switchPlayer(player) == IF player = PLAYER_X THEN PLAYER_O ELSE PLAYER_X

\* declareWinner's text
WinnerStr(w) ==
    CASE w = PLAYER_X -> "Player X wins!"
      [] w = PLAYER_O -> "Player O wins!"
      [] OTHER -> "It's a draw"

InitGame ==
    /\ FetcherIdle
    /\ RunsIdle /\ QueryIdle /\ UploadIdle /\ FdcIdle /\ MsIdle /\ LoaderIdle /\ DeadlineIdle
    /\ players = [human |-> NoMark, ai |-> NoMark]
    /\ gameState = "notStarted"
    /\ grid = arr
    /\ winner = "none"
    /\ nextMove = NoMark
    /\ appear = FALSE
    /\ aiTimer = FALSE

\* variant: move without the test of gameState
MoveAlways(g, index, player) ==
    IF player /= NoMark
    THEN [g EXCEPT ![index] = player]
    ELSE g

\* move(index, player): the grid it leaves
Move(g, index, player) ==
    IF player /= NoMark /\ gameState = "inProgress"
    THEN [g EXCEPT ![index] = player]
    ELSE g

\* the render after a handler set players, gameState, grid and nextMove to
\* p, s, g and n, with the two effects: the winner effect declares the winner,
\* the AI effect clears its timeout and sets a new one when it is AI's turn
Rendered(p, s, g, n, shown, fired) ==
    LET boardWinner == getWinner(g)
        declared == boardWinner /= NoMark /\ s /= "over"
        s2 == IF declared THEN "over" ELSE s
        rerun == <<n, s2, g, p>> /= <<nextMove, gameState, grid, players>>
    IN /\ players' = p
       /\ grid' = g
       /\ nextMove' = n
       /\ gameState' = s2
       /\ winner' = IF declared THEN WinnerStr(boardWinner) ELSE winner
       /\ appear' = IF declared /\ boardWinner = p.human THEN TRUE ELSE shown
       /\ aiTimer' = IF rerun
                     THEN n /= NoMark /\ n = p.ai /\ s2 /= "over"
                     ELSE aiTimer /\ ~fired

\* choosePlayer(option), offered while the game is not started
ChoosePlayer ==
    /\ gameState = "notStarted"
    /\ \E option \in {PLAYER_X, PLAYER_O} :
          Rendered([human |-> option, ai |-> switchPlayer(option)],
                   "inProgress", grid, PLAYER_X, appear, FALSE)
    /\ UNCHANGED outside_game

\* humanMove(index): a click on a square of the board
HumanMove ==
    /\ gameState /= "notStarted"
    /\ \E index \in Squares :
          /\ grid[index] = NoMark
          /\ nextMove = players.human
          /\ Rendered(players, gameState, Move(grid, index, players.human),
                      players.ai, appear, FALSE)
    /\ UNCHANGED outside_game

\* the timeout of the AI effect fires: aiMove(), with whatever index the mode
\* and the random numbers give
AiMove ==
    /\ aiTimer
    /\ \E index \in Squares \cup {-1} :
          IF index /= -1 /\ grid[index] = NoMark
          THEN Rendered(players, gameState,
                        IF players.ai /= NoMark
                        THEN Move(grid, index, players.ai) ELSE grid,
                        players.human, appear, TRUE)
          ELSE Rendered(players, gameState, grid, nextMove, appear, TRUE)
    /\ UNCHANGED outside_game

\* startNewGame(), the button under the board
StartNewGame ==
    /\ gameState /= "notStarted"
    /\ Rendered(players, "notStarted", arr, nextMove, FALSE, FALSE)
    /\ UNCHANGED outside_game

NextGame ==
    \/ ChoosePlayer
    \/ HumanMove
    \/ AiMove
    \/ StartNewGame

SpecGame == InitGame /\ [][NextGame]_vars

\* ---- DataLoader: the query over the fetcher ---------------------------------------
DataLoaderRetries == 3
QueryRetries == 3

\* what one attempt is answered with: a status, or no response at all
LoaderAnswers == {200, 404, 500, NoStatus}
outside_loader ==
    <<vars_fetcher, vars_runs, vars_query, vars_upload, vars_fdc, vars_ms, vars_game,
      vars_deadline>>

IsClientError(status) == status >= 400 /\ status < 500

InitLoader ==
    /\ FetcherIdle
    /\ RunsIdle /\ QueryIdle /\ UploadIdle /\ FdcIdle /\ MsIdle /\ GameIdle /\ DeadlineIdle
    /\ ldPc = "idle"
    /\ ldRecurs = 0
    /\ ldCalls = 0
    /\ failureCount = 0
    /\ ldError = NoStatus
    /\ clientErrorAt = 0

\* useSuspenseQuery runs queryFn: get(url, fetcherOptions, params), first attempt
LoaderQueryFn ==
    /\ ldPc = "idle"
    /\ ldPc' = "inflight"
    /\ ldRecurs' = 0
    /\ ldCalls' = ldCalls + 1
    /\ UNCHANGED <<outside_loader, failureCount, ldError, clientErrorAt>>

\* executeRequest ends: a 2xx answer is the data, anything else a FetcherError
LoaderAttemptEnds ==
    /\ ldPc = "inflight"
    /\ \E answer \in LoaderAnswers :
          IF answer /= NoStatus /\ ~IsHttpError(answer)
          THEN /\ ldPc' = "data"
               /\ UNCHANGED <<ldError, clientErrorAt>>
          ELSE /\ ldPc' = "failed"
               /\ ldError' = answer
               /\ clientErrorAt' =
                     IF clientErrorAt = 0 /\ IsClientError(answer)
                     THEN ldCalls ELSE clientErrorAt
    /\ UNCHANGED <<outside_loader, ldRecurs, ldCalls, failureCount>>

\* Effect.retry(retrySchedule) with retries: 3, whatever the failure
LoaderFetcherRetry ==
    /\ ldPc = "failed"
    /\ ldRecurs < DataLoaderRetries
    /\ ldPc' = "inflight"
    /\ ldRecurs' = ldRecurs + 1
    /\ ldCalls' = ldCalls + 1
    /\ UNCHANGED <<outside_loader, failureCount, ldError, clientErrorAt>>

\* the query's retry(failureCount, error)
QueryRetry(count, status) ==
    IF status /= NoStatus /\ IsClientError(status) THEN FALSE
    ELSE count < QueryRetries

\* the schedule is used up: catchAll fails, Effect.runPromise rejects, and the
\* catch of queryFn rethrows a FetcherError or wraps what it got in one without
\* status; then the query's retry function decides
LoaderFetcherFails ==
    /\ ldPc = "failed"
    /\ ldRecurs >= DataLoaderRetries
    /\ \E wrapped \in BOOLEAN :
          LET status == IF wrapped THEN NoStatus ELSE ldError
          IN /\ ldError' = status
             /\ ldPc' = IF QueryRetry(failureCount, status)
                        THEN "retrying" ELSE "error"
    /\ UNCHANGED <<outside_loader, ldRecurs, ldCalls, failureCount, clientErrorAt>>

\* the query runs queryFn again
LoaderQueryRetry ==
    /\ ldPc = "retrying"
    /\ failureCount' = failureCount + 1
    /\ ldPc' = "inflight"
    /\ ldRecurs' = 0
    /\ ldCalls' = ldCalls + 1
    /\ UNCHANGED <<outside_loader, ldError, clientErrorAt>>

NextLoader ==
    \/ LoaderQueryFn
    \/ LoaderAttemptEnds
    \/ LoaderFetcherRetry
    \/ LoaderFetcherFails
    \/ LoaderQueryRetry

SpecLoader == InitLoader /\ [][NextLoader]_vars

\* ---- the fetcher's timeout against the clock --------------------------------------
outside_deadline ==
    <<vars_runs, vars_query, vars_upload, vars_fdc, vars_ms, vars_game, vars_loader>>

\* `timeout` ms have passed since the attempt began: withTimeout is around
\* client.execute(req) alone, so its timer fires only if that call is pending;
\* during response.json and response.text no timer is running
DeadlinePasses ==
    /\ pc \in {"inflight", "received"}
    /\ overdueAttempt /= attempt
    /\ overdueAttempt' = attempt
    /\ IF pc = "inflight"
       THEN /\ err' = FetcherError("timeout", NoStatus, "undefined", attempt)
            /\ attemptLog' = Append(attemptLog, err')
            /\ interrupted' = interrupted \cup {attempt}
            /\ pc' = "failed"
       ELSE UNCHANGED <<err, attemptLog, interrupted, pc>>
    /\ UNCHANGED <<args, outside_deadline, attempt, recurs, delay, resp, rawData,
                   result, transportCalls, schemaCalls, onErrorLog>>

NextDeadline ==
    \/ BuildRequest
    \/ ExecuteRequest
    \/ TransportResponds
    \/ TransportFails
    \/ DeadlinePasses
    \/ LateResponse
    \/ HttpStatusBranch
    \/ ParseBody
    \/ ValidateResponse
    \/ Retry
    \/ SleepTick
    \/ BackoffElapsed
    \/ CatchAll

SpecDeadline == InitFair /\ [][NextDeadline]_vars

\* ---- vocabulary of the properties -----------------------------------------
Failed == pc = "done" /\ result.tag = "Failure"
Succeeded == pc = "done" /\ result.tag = "Success"
SerializationFailed == Failed /\ result.error.kind = "serialization"
\* the logical request ended with the failure of a physical attempt
AttemptsFailed == Failed /\ result.error.kind /= "serialization"
LastOutcome(log) == log[Len(log)]
\* this step ends a physical attempt
Concludes == Len(attemptLog') = Len(attemptLog) + 1
Got2xx == resp.status \in 200..299
GotResponse == resp.status \in Statuses
Count(log, e) == Cardinality({i \in DOMAIN log : log[i] = e})

\* C1: with maxRetries = R and every physical attempt failing, at most R+1
\* physical attempts are made, and the returned Failure's attempt number is
\* the number of physical attempts made.
C1_RetryBound ==
    /\ transportCalls <= retries + 1
    /\ AttemptsFailed => result.error.attempt = transportCalls

C1_Witness ==
    /\ AttemptsFailed
    /\ retries >= 2
    /\ transportCalls = retries + 1
    /\ result.error.attempt = retries + 1

\* C2: once physical attempt K has succeeded the logical request is done with
\* Success at that very step, and no further attempt is started whatever
\* retry budget remains.
C2_SuccessShortCircuit ==
    [][/\ (Concludes /\ LastOutcome(attemptLog').kind = "success")
            => /\ pc' = "done"
               /\ result'.tag = "Success"
               /\ transportCalls' = LastOutcome(attemptLog').attempt
       /\ (attemptLog /= <<>> /\ LastOutcome(attemptLog).kind = "success")
            => /\ transportCalls' = transportCalls
               /\ attempt' = attempt
               /\ result' = result
               /\ pc' = "done"]_vars

C2_Witness ==
    /\ Succeeded
    /\ attempt >= 2
    /\ recurs < retries
    /\ transportCalls = attempt

\* C3: a body that fails to encode (POST/PUT/PATCH, body present) is never
\* retried and the Outcome is Failure(serialization-failure) with attempt = 1.
C3_SerializationAttemptOne ==
    (pc = "done" /\ method \in BodyMethods /\ body = "bad")
        => /\ result.tag = "Failure"
           /\ result.error.kind = "serialization"
           /\ recurs = 0
           /\ transportCalls <= 1
           /\ result.error.attempt = 1

\* C4: every returned Failure carries the request's target URL and a 1-based
\* attempt number, the physical attempt on which it was produced.
C4_FailureCarriesAttempt ==
    Failed => /\ result.error.url = Input
              /\ result.error.attempt >= 1
              /\ result.error.attempt <= Len(attemptLog)
              /\ attemptLog[result.error.attempt] = result.error

\* C5: onError is invoked at most once for any single Failure instance, and
\* the final Failure of a kind not reported at classification time (timeout,
\* transport, decode) is reported exactly once.
C5_OnErrorOncePerFailure ==
    /\ \A i, j \in DOMAIN onErrorLog :
          i /= j => onErrorLog[i] /= onErrorLog[j]
    /\ (AttemptsFailed /\ onError
          /\ result.error.kind \in {"timeout", "transport", "decode"})
        => Count(onErrorLog, result.error) = 1

\* C6: timeout, transport, http-status, decode and validation failures are
\* all retried while budget remains, so a logical request that ends with the
\* failure of an attempt has made exactly R+1 attempts whatever the kinds;
\* a serialization failure is never retried.
C6_UniformRetry ==
    /\ (pc = "exhausted" \/ AttemptsFailed)
        => /\ transportCalls = retries + 1
           /\ Len(attemptLog) = retries + 1
           /\ \A i \in DOMAIN attemptLog :
                 attemptLog[i].kind \in
                    {"timeout", "transport", "http", "decode", "validation"}
    /\ SerializationFailed => (recurs = 0 /\ attemptLog = <<>>)

C6_Witness ==
    /\ AttemptsFailed
    /\ retries >= 2
    /\ attemptLog[1].kind = "validation"
    /\ attemptLog[2].kind = "decode"
    /\ attemptLog[3].kind = "validation"

\* C7: an attempt that received a status in [200, 300) never ends with an
\* http-status-error; an attempt that received any other status always ends
\* with an http-status-error carrying that status.
C7_StatusClassification ==
    [][(Concludes /\ GotResponse)
         => IF Got2xx
            THEN LastOutcome(attemptLog').kind /= "http"
            ELSE /\ LastOutcome(attemptLog').kind = "http"
                 /\ LastOutcome(attemptLog').status = resp.status
                 /\ LastOutcome(attemptLog').cls = "FetcherError"]_vars

C7_Witness ==
    /\ Len(attemptLog) >= 2
    /\ attemptLog[1].kind = "http" /\ attemptLog[1].status = 300
    /\ attemptLog[2].kind = "decode" /\ attemptLog[2].status = 299

\* C8: a 2xx response whose body cannot be parsed ends the attempt with a
\* decode-failure (FetcherError with the response status and the attempt);
\* one whose body parses but is rejected by the supplied validator ends it
\* with a validation-failure (ValidationError with the problem summary and
\* the decoded value); the validator never runs on a body that failed to
\* decode.
C8_DecodeVersusValidate ==
    [][/\ (Concludes /\ Got2xx /\ resp.body \in {"notjson", "unreadable"})
            => /\ LastOutcome(attemptLog').cls = "FetcherError"
               /\ LastOutcome(attemptLog').kind = "decode"
               /\ LastOutcome(attemptLog').status = resp.status
               /\ LastOutcome(attemptLog').attempt = transportCalls
       /\ (Concludes /\ Got2xx /\ schema /\ resp.body = "nonconforming")
            => /\ LastOutcome(attemptLog').cls = "ValidationError"
               /\ LastOutcome(attemptLog').kind = "validation"
               /\ LastOutcome(attemptLog').problems /= ""
               /\ LastOutcome(attemptLog').data = resp.body
       /\ schemaCalls' /= schemaCalls
            => (Got2xx /\ resp.body \in {"valid", "nonconforming"})]_vars

C8_Witness ==
    /\ Len(attemptLog) >= 2
    /\ attemptLog[1].kind = "decode" /\ attemptLog[1].status = 200
    /\ attemptLog[2].kind = "validation"
    /\ schemaCalls = 1

\* C9: when the timer fires while the transport call is in flight the attempt
\* ends with Failure(timeout) carrying the current attempt number, and the
\* late answer to that call changes neither an attempt's outcome nor the
\* logical request's Outcome.
C9_TimeoutWins ==
    [][/\ (interrupted' /= interrupted /\ interrupted \subseteq interrupted')
            => /\ pc = "inflight" /\ pc' = "failed"
               /\ interrupted' = interrupted \cup {transportCalls}
               /\ Concludes
               /\ LastOutcome(attemptLog').kind = "timeout"
               /\ LastOutcome(attemptLog').attempt = transportCalls
               /\ err' = LastOutcome(attemptLog')
       /\ (interrupted' /= interrupted /\ interrupted' \subseteq interrupted)
            => UNCHANGED <<pc, attempt, recurs, resp, rawData, err, result,
                           transportCalls, schemaCalls, onErrorLog,
                           attemptLog>>
       /\ \A i \in DOMAIN attemptLog :
             i \in DOMAIN attemptLog' /\ attemptLog'[i] = attemptLog[i]]_vars

C9_Witness ==
    /\ AttemptsFailed
    /\ result.error.kind = "timeout"
    /\ transportCalls \notin interrupted
    /\ attemptLog[1].kind = "timeout"
    /\ 1 \notin interrupted

\* C10: on exhaustion the returned Failure is the one produced by the final
\* physical attempt R+1, not by an earlier attempt.
C10_FinalAttemptFailure ==
    AttemptsFailed
        => /\ Len(attemptLog) = retries + 1
           /\ result.error = attemptLog[retries + 1]
           /\ result.error.attempt = retries + 1

C10_Witness ==
    /\ AttemptsFailed
    /\ retries >= 1
    /\ attemptLog[1].kind = "http"
    /\ attemptLog[1].kind /= attemptLog[retries + 1].kind
    /\ result.error.kind = attemptLog[retries + 1].kind


\* C11: physical attempts are strictly sequential: a transport call starts
\* only when every earlier attempt's outcome is known and none is in flight,
\* and, after a failed attempt, only once the whole backoff delay has
\* elapsed; at most one transport call is in flight at any time.
InFlight ==
    transportCalls - Len(attemptLog)
        - (IF pc \in {"received", "parsed"} THEN 1 ELSE 0)

C11_SequentialAttempts ==
    [][/\ InFlight \in {0, 1}
       /\ transportCalls' /= transportCalls
            => /\ transportCalls' = transportCalls + 1
               /\ InFlight = 0
               /\ Len(attemptLog) = transportCalls
               /\ delay = 0
               /\ transportCalls >= 1
                    => /\ pc = "ready"
                       /\ LastOutcome(attemptLog).kind /= "success"
       /\ (pc = "backoff" /\ delay > 0) => pc' = "backoff"]_vars

C11_Witness ==
    /\ pc = "inflight"
    /\ transportCalls = 3
    /\ Len(attemptLog) = 2
    /\ delay = 0

\* C12: the backoff delay before physical attempt N+1 is
\* retryDelay * 2^(N-1): retryDelay after the first attempt, doubling after
\* each further one, never decreasing and with no ceiling.
RECURSIVE ExpectedDelay(_)
ExpectedDelay(n) == IF n <= 1 THEN 1000 ELSE 2 * ExpectedDelay(n - 1)

C13_NoAttemptAfterCancel ==
    [][signal = "aborted" => transportCalls' = transportCalls]_vars


\* C14: concurrent logical requests do not interfere: under any interleaving
\* each run's attempt counter counts only its own physical attempts, each run
\* stays within its own retry budget, and the attempt number of its Outcome
\* is the one it would have alone.
C14_RunsIndependent ==
    \A p \in DOMAIN runs :
        /\ runs[p].attempt = runs[p].calls
        /\ runs[p].calls <= runs[p].retries + 1
        /\ runs[p].recurs <= runs[p].retries
        /\ runs[p].pc = "failed" => runs[p].err.attempt = runs[p].calls
        /\ runs[p].result.tag = "Failure"
             => /\ runs[p].result.attempt = runs[p].retries + 1
                /\ runs[p].calls = runs[p].retries + 1
        /\ runs[p].result.tag = "Success"
             => runs[p].result.attempt = runs[p].calls

C14_Witness ==
    /\ DOMAIN runs = Runs
    /\ runs[1].pc = "inflight" /\ runs[1].attempt = 2
    /\ runs[2].pc = "done" /\ runs[2].result.tag = "Failure"
    /\ runs[2].retries = 2 /\ runs[2].result.attempt = 3

\* C16: for the same request and the same sequence of transport answers, the
\* run with an onError observer and the run without one end with the same
\* Outcome after the same physical attempts.
C16_ObserverIsPassive ==
    \A p, q \in DOMAIN runs :
        /\ (runs[p].pc = "done" /\ runs[q].pc = "done")
             => /\ runs[p].result = runs[q].result
                /\ runs[p].calls = runs[q].calls
        /\ runs[p].calls = runs[q].calls /\ runs[p].pc = runs[q].pc
             => /\ runs[p].err = runs[q].err
                /\ runs[p].recurs = runs[q].recurs

C16_Witness ==
    /\ DOMAIN runs = Runs
    /\ runs[1].onError /\ ~runs[2].onError
    /\ runs[1].notified >= 2
    /\ runs[2].notified = 0
    /\ runs[1].pc = "done" /\ runs[2].pc = "done"
    /\ runs[1].result.tag = "Failure" /\ runs[1].result.kind = "http"
    /\ runs[1].calls >= 2


\* C15: every logical request terminates with exactly one Outcome, a Success
\* or a typed Failure (FetcherError or ValidationError) of one of the six
\* kinds; once it is there it never changes.
TypedOutcome ==
    \/ result.tag = "Success"
    \/ /\ result.tag = "Failure"
       /\ result.error.cls \in {"FetcherError", "ValidationError"}
       /\ result.error.kind \in {"serialization", "transport", "timeout",
                                 "http", "decode", "validation"}

NonNullItems(v) == SelectSeq(v.a, LAMBDA it : it.t \notin {"null", "undefined"})

\* how many entries the i-th parameter contributes
Contribution(i) ==
    IF params[i].value.t \in {"null", "undefined"} THEN 0
    ELSE IF params[i].value.t = "array" THEN Len(NonNullItems(params[i].value))
    ELSE 1

RECURSIVE EntriesBefore(_)
EntriesBefore(i) ==
    IF i <= 1 THEN 0 ELSE EntriesBefore(i - 1) + Contribution(i - 1)

Text(v) ==
    IF v = [t |-> "string", s |-> "x"] THEN "x"
    ELSE IF v = [t |-> "string", s |-> ""] THEN ""
    ELSE IF v = [t |-> "number", n |-> 0] THEN "0"
    ELSE "false"

C17_QuerySerialization ==
    queried =>
        /\ Len(query) = EntriesBefore(Len(params) + 1)
        /\ \A i \in DOMAIN params :
              \A j \in 1..Contribution(i) :
                 /\ query[EntriesBefore(i) + j].key = params[i].key
                 /\ query[EntriesBefore(i) + j].value =
                       IF params[i].value.t = "array"
                       THEN Text(NonNullItems(params[i].value)[j])
                       ELSE Text(params[i].value)

C17_Witness ==
    /\ queried
    /\ Len(params) = 2
    /\ params[1].key = "b" /\ params[1].value.t = "array"
    /\ params[1].value.a = <<[t |-> "number", n |-> 0], Null>>
    /\ params[2].key = "a" /\ params[2].value = [t |-> "boolean", b |-> FALSE]
    /\ query = <<[key |-> "b", value |-> "0"], [key |-> "a", value |-> "false"]>>


\* C18: for a status outside [200, 300) the body is decoded as a diagnostic
\* payload on a best-effort basis: when that decoding fails the attempt still
\* ends with an http-status-error carrying the status, without payload, and
\* never with a decode-failure; when it succeeds the payload is attached.
C18_DiagnosticBestEffort ==
    [][(Concludes /\ GotResponse /\ ~Got2xx)
         => /\ pc' = "failed"
            /\ err' = LastOutcome(attemptLog')
            /\ err'.kind = "http"
            /\ err'.status = resp.status
            /\ err'.attempt = transportCalls
            /\ resp.body \in {"notjson", "unreadable"}
                 => err'.data = "undefined"
            /\ resp.body \in {"valid", "nonconforming"}
                 => err'.data = resp.body]_vars

C18_Witness ==
    /\ pc = "failed"
    /\ resp.status = 199
    /\ resp.body = "notjson"
    /\ err.kind = "http"
    /\ err.data = "undefined"


\* C19: the upload component never holds more than maxFiles files, whatever
\* batches were dropped or selected and whatever files were removed.
C19_AtMostMaxFiles == Len(files) <= MaxFiles


\* C20: FDCClient.makeRequest never retries an attempt that failed with
\* FDCRateLimitError (429), FDCAuthError (401) or FDCValidationError: the error
\* is what makeRequest throws, and no fetch follows the failed one.
C20_NoRetryOfTerminalErrors ==
    lastError.name \in NoRetryErrors =>
        /\ fdcPc = "thrown"
        /\ fdcResult = lastError
        /\ fetchCalls = fdcAttempt

\* a second attempt of three answered 429 after a first that answered 500
C20_Witness ==
    /\ lastError.name = "FDCRateLimitError"
    /\ fdcAttempt = 2
    /\ retryAttempts = 3
    /\ fdcDelay = FdcRetryDelay

\* C21: any two outbound requests of one MediastackAPI instance are issued at
\* least minRequestInterval apart, whatever the interleaving of the calls.
C21_RequestsSpaced ==
    \A i, j \in DOMAIN issued :
        i < j => issued[j] - issued[i] >= MinRequestInterval

\* C22: a move changes the grid only while the game is inProgress: in state
\* notStarted or over no move attempt alters a square, and a declared result
\* leaves the grid as it is until startNewGame resets it.
C22_MovesOnlyInProgress ==
    [][gameState /= "inProgress" =>
          \/ grid' = grid
          \/ gameState /= "notStarted" /\ gameState' = "notStarted" /\ grid' = arr]_vars

\* the AI has won and the human clicked a free square afterwards
C22_Witness ==
    /\ gameState = "over"
    /\ players.ai /= NoMark
    /\ winner = WinnerStr(players.ai)
    /\ nextMove = players.ai
    /\ \E i \in Squares : grid[i] = NoMark

\* C23: with DataLoader's default options a request answered with a status in
\* 400-499 is not retried: the attempt so answered is the last physical attempt.
C23_ClientErrorNotRetried ==
    clientErrorAt /= 0 => ldCalls = clientErrorAt

\* C24: the timeout bounds the whole physical attempt: once `timeout` ms have
\* passed since an attempt began, the attempt is no longer pending, be it on
\* the response or on the reading and decoding of its body.
C24_TimeoutBoundsAttempt ==
    (attempt > 0 /\ overdueAttempt = attempt) => pc \notin {"inflight", "received"}

\* C25: in FDCClient.makeRequest every attempt, retries included, is subject
\* to the timeout, and the abort of one attempt's timeout does not fail later
\* attempts: each attempt begins with a running timer and a signal not aborted.
C25_TimeoutPerAttempt ==
    [][(fdcPc /= "fetching" /\ fdcPc' = "fetching") =>
          (timeoutId' = "armed" /\ ~aborted')]_vars

\* C26: makeRequest calls fetch at most retryAttempts times, one call after
\* another with this.delay(retryDelay * attempt) between two calls, calls fetch
\* no more once an attempt returned data, and throws the last attempt's error
\* when it throws.
C26_BoundedSequentialAttempts ==
    [][/\ fetchCalls' <= retryAttempts'
       /\ fetchCalls' /= fetchCalls =>
             /\ fetchCalls' = fetchCalls + 1
             /\ \/ fdcPc = "idle"
                \/ fdcPc = "delaying" /\ fdcDelay = FdcRetryDelay * fdcAttempt
       /\ fdcPc \in {"returned", "thrown"} => fetchCalls' = fetchCalls
       /\ fdcPc' = "thrown" => fdcResult' = lastError']_vars

\* three attempts of three failed, the last delay was twice retryDelay
C26_Witness ==
    /\ fdcPc = "thrown"
    /\ retryAttempts = 3
    /\ fetchCalls = 3
    /\ fdcDelay = 2 * FdcRetryDelay
    /\ fdcResult.name = "FDCApiError"

\* C27: every accepted image leaves the processing state: once its analysis
\* has ended, with a result or with an error, in the enhanced mode as in the
\* traditional one, it has no entry in processingProgress any more.
C27_ProgressRemoved ==
    \A id \in DOMAIN analysis :
        analysis[id] \in {"succeeded", "failed"} => id \notin processingProgress

====
